---- MODULE Spec2Model ----
(***************************************************************************)
(* A model of package easyrsa (pki.go): the PKI object with its three      *)
(* collaborators (KeyStorage, SerialProvider, CRLHolder) and the callers   *)
(* that invoke NewCa, NewCert, GetCRL, RevokeOne, RevokeAllByCN and        *)
(* IsRevoked on it.  Every call of a collaborator is one step of the       *)
(* calling goroutine, so calls made by different callers interleave at     *)
(* exactly the places where the Go code touches shared state.              *)
(*                                                                         *)
(* A serial number is a *big.Int.  It is kept as its two lowest machine    *)
(* words: [hi |-> h, lo |-> l] stands for h * 2^64 + l.  Cmp compares the  *)
(* whole number, Int64 keeps the low word only.                            *)
(*                                                                         *)
(* The collaborators fail nondeterministically.  The calls into the        *)
(* standard library (key generation, signing, PEM and ASN.1 coding) are    *)
(* taken to succeed on the well-formed values this package hands them.     *)
(***************************************************************************)
EXTENDS Integers, Sequences, FiniteSets, TLC

\* ------------------------------------------------------------------ bounds
\* The number of calls made on the PKI object in one run (by one caller, by
\* concurrent callers), and the number of clock ticks.
MaxCalls == 4
MaxConcurrentCalls == 3
MaxTime == 1

Procs == {"p1", "p2"}

\* The words serial numbers are made of: two low words, with and without a
\* higher word above them, so that distinct serials can share their low word.
HighWords == {0, 1}
LowWords == {1, 2}

Serials == [hi : HighWords, lo : LowWords]

\* The value the serial allocator starts below: smaller than every serial.
SerialFloor == [hi |-> -1, lo |-> 0]

\* The leaf certificates callers ask for: (cn, server, groups).
Requests ==
  { [cn |-> "svc-a", server |-> TRUE, groups |-> <<"web">>],
    [cn |-> "svc-b", server |-> FALSE, groups |-> <<>>],
    [cn |-> "svc-b", server |-> FALSE, groups |-> <<"ops", "db">>] }

CNs == {"ca"} \cup {r.cn : r \in Requests}

\* ------------------------------------------------------------ big.Int
\* x.Cmp(y): -1, 0 or 1, at full precision.
Cmp(x, y) ==
  IF x.hi # y.hi THEN (IF x.hi > y.hi THEN 1 ELSE -1)
  ELSE IF x.lo # y.lo THEN (IF x.lo > y.lo THEN 1 ELSE -1)
  ELSE 0

\* x.Int64(): the low 64-bit word of x; the higher words are dropped.
Int64(x) == x.lo

\* ------------------------------------------------------- collaborators
\* KeyStorage: the stored pairs in the order they were put.
StoragePut(st, pair) == Append(st, pair)

StorageGetByCN(st, cn) == SelectSeq(st, LAMBDA x : x.CN = cn)

StorageGetLastByCn(st, cn) ==
  LET found == StorageGetByCN(st, cn)
  IN  IF found = <<>> THEN <<>> ELSE <<found[Len(found)]>>

\* SerialProvider: the values Next() may return after it returned `last`.
SerialNext(last) == {s \in Serials : Cmp(s, last) = 1}

\* CRLHolder: the store holds no CRL (<<>>) or one (<<crl>>).
\* Get answers NotFound when nothing was written; reading a stored CRL can fail.
CRLGet(store, fault) ==
  IF store = <<>> THEN [err |-> "NotFound", list |-> <<>>]
  ELSE IF fault THEN [err |-> "IOError", list |-> <<>>]
  ELSE [err |-> "nil", list |-> store[1].RevokedCertificates]

\* Put replaces the stored CRL, or fails and leaves it as it was.
CRLPut(store, crl, fault) == IF fault THEN store ELSE <<crl>>

\* ------------------------------------------------------------ pki.go
NewX509Pair(cert, cn, serial) == [CN |-> cn, Serial |-> serial, Cert |-> cert]

\* The template NewCa signs with its own key.
CaTemplate(serial) ==
  [ SerialNumber |-> serial,
    CommonName   |-> "ca",
    IsCA         |-> TRUE,
    KeyUsage     |-> {"DigitalSignature", "CertSign", "CRLSign"},
    ExtKeyUsage  |-> {},
    NsCertType   |-> 0,
    Groups       |-> <<>>,
    Issuer       |-> serial ]

\* CertTemplate without the server branch: every leaf gets the client's
\* extended key usage and discriminator.
CertTemplateClientOnly(cn, server, groups, serial, caSerial) ==
  [ SerialNumber |-> serial,
    CommonName   |-> cn,
    IsCA         |-> FALSE,
    KeyUsage     |-> IF server
                     THEN {"DigitalSignature", "KeyAgreement", "KeyEncipherment"}
                     ELSE {"DigitalSignature", "KeyAgreement"},
    ExtKeyUsage  |-> {"ClientAuth"},
    NsCertType   |-> 128,
    Groups       |-> groups,
    Issuer       |-> caSerial ]

\* The template NewCert signs with the CA it read.
CertTemplate(cn, server, groups, serial, caSerial) ==
  [ SerialNumber |-> serial,
    CommonName   |-> cn,
    IsCA         |-> FALSE,
    KeyUsage     |-> IF server
                     THEN {"DigitalSignature", "KeyAgreement", "KeyEncipherment"}
                     ELSE {"DigitalSignature", "KeyAgreement"},
    ExtKeyUsage  |-> IF server THEN {"ServerAuth"} ELSE {"ClientAuth"},
    NsCertType   |-> IF server THEN 64 ELSE 128,
    Groups       |-> groups,
    Issuer       |-> caSerial ]

RECURSIVE removeDupsFrom(_, _)
removeDupsFrom(list, encountered) ==
  IF list = <<>> THEN <<>>
  ELSE IF Int64(Head(list).SerialNumber) \in encountered
       THEN removeDupsFrom(Tail(list), encountered)
       ELSE <<Head(list)>> \o
            removeDupsFrom(Tail(list), encountered \cup {Int64(Head(list).SerialNumber)})

removeDups(list) == removeDupsFrom(list, {})

\* sort.Slice(caPairs, less) with less(i, j) = (caPairs[i].Serial > caPairs[j].Serial)
RECURSIVE SortBySerialDesc(_)
SortBySerialDesc(pairs) ==
  IF pairs = <<>> THEN <<>>
  ELSE LET i == CHOOSE i \in 1..Len(pairs) :
                  \A j \in 1..Len(pairs) : Cmp(pairs[j].Serial, pairs[i].Serial) # 1
           rest == [k \in 1..(Len(pairs) - 1) |-> IF k < i THEN pairs[k] ELSE pairs[k + 1]]
       IN  <<pairs[i]>> \o SortBySerialDesc(rest)

\* The scan of IsRevoked over what GetCRL returned.
IsRevokedIn(got, serial) ==
  LET list == IF got.err # "nil" THEN <<>> ELSE got.list
  IN  \E i \in 1..Len(list) : Cmp(list[i].SerialNumber, serial) = 0

\* ExtractGroups that answers an empty list of groups with no error.
ExtractGroupsNoError(cert) == [err |-> "nil", groups |-> cert.Groups]

ExtractGroups(cert) ==
  IF Len(cert.Groups) > 0 THEN [err |-> "nil", groups |-> cert.Groups]
  ELSE [err |-> "No groups in certificate", groups |-> <<>>]

\* ------------------------------------------------------------- state
VARIABLES
  storage,     \* KeyStorage: sequence of pairs, oldest first
  lastSerial,  \* SerialProvider: the last value Next() returned
  crlStore,    \* CRLHolder: <<>> or <<crl>>
  clock,       \* time.Now()
  pc,          \* per caller: where its call in progress stands ("idle": none)
  serial,      \* per caller: the serial of the RevokeOne / allocated by NewCa, NewCert
  list,        \* per caller: RevokeOne's list
  newCrl,      \* per caller: RevokeOne's signed CRL, <<>> before it is built
  batch,       \* per caller: the serials RevokeAllByCN has still to revoke
  caPair,      \* per caller: NewCert's caPair, <<>> before it is read
  req,         \* per caller: NewCert's arguments
  outer,       \* per caller: the call made by the caller itself
  faults,      \* per caller: the CRLHolder calls that failed during the call
  op, arg, ret,\* per caller: the last call that returned, its argument and result
  requested,   \* every serial some RevokeOne call was given
  budget       \* the number of calls still to be made

vars == <<storage, lastSerial, crlStore, clock, pc, serial, list, newCrl, batch,
          caPair, req, outer, faults, op, arg, ret, requested, budget>>

NoRequest == [cn |-> "", server |-> FALSE, groups |-> <<>>]

\* The state NewPKI returns (lines 63-65) over empty collaborators.
Constructed ==
  /\ storage = <<>>
  /\ lastSerial = SerialFloor
  /\ crlStore = <<>>
  /\ clock = 0
  /\ pc = [p \in Procs |-> "idle"]
  /\ serial = [p \in Procs |-> SerialFloor]
  /\ list = [p \in Procs |-> <<>>]
  /\ newCrl = [p \in Procs |-> <<>>]
  /\ batch = [p \in Procs |-> <<>>]
  /\ caPair = [p \in Procs |-> <<>>]
  /\ req = [p \in Procs |-> NoRequest]
  /\ outer = [p \in Procs |-> "none"]
  /\ faults = [p \in Procs |-> {}]
  /\ op = [p \in Procs |-> "none"]
  /\ arg = [p \in Procs |-> SerialFloor]
  /\ ret = [p \in Procs |-> "nil"]
  /\ requested = {}

Init == Constructed /\ budget = MaxConcurrentCalls

InitSeq == Constructed /\ budget = MaxCalls


\* ------------------------------------------------------------ returns
Panic == "panic: index out of range"

\* The call of caller p returns r: the caller is idle again and holds the result.
Return(p, name, a, r) ==
  /\ pc' = [pc EXCEPT ![p] = "idle"]
  /\ op' = [op EXCEPT ![p] = name]
  /\ arg' = [arg EXCEPT ![p] = a]
  /\ ret' = [ret EXCEPT ![p] = r]
  /\ serial' = [serial EXCEPT ![p] = SerialFloor]
  /\ list' = [list EXCEPT ![p] = <<>>]
  /\ newCrl' = [newCrl EXCEPT ![p] = <<>>]
  /\ batch' = [batch EXCEPT ![p] = <<>>]
  /\ caPair' = [caPair EXCEPT ![p] = <<>>]
  /\ req' = [req EXCEPT ![p] = NoRequest]
  /\ outer' = [outer EXCEPT ![p] = "none"]

\* Caller p starts a call.
Call(p) ==
  /\ pc[p] = "idle"
  /\ budget > 0
  /\ budget' = budget - 1

\* RevokeOne returns r, to the caller or to the loop of RevokeAllByCN
\* (lines 255-258), which goes on after nil and returns after an error.
ReturnRevokeOne(p, r) ==
  IF outer[p] = "RevokeAllByCN"
  THEN IF r = "nil" /\ batch[p] # <<>>
       THEN /\ pc' = [pc EXCEPT ![p] = "RevokeAllByCN.RevokeOne"]
            /\ list' = [list EXCEPT ![p] = <<>>]
            /\ newCrl' = [newCrl EXCEPT ![p] = <<>>]
            /\ UNCHANGED <<op, arg, ret, serial, batch, caPair, req, outer>>
       ELSE Return(p, "RevokeAllByCN", serial[p],
                   IF r \in {"nil", Panic} THEN r ELSE "can't revoke")
  ELSE Return(p, "RevokeOne", serial[p], r)

\* ------------------------------------------------------------ RevokeOne
\* Lines 212-216: read the stored CRL; any error of GetCRL leaves the list empty.
RevokeOneRead(p, s, fault) ==
  LET oldList == CRLGet(crlStore, fault)
  IN  /\ list' = [list EXCEPT ![p] = IF oldList.err = "nil" THEN oldList.list ELSE <<>>]
      /\ serial' = [serial EXCEPT ![p] = s]
      /\ faults' = [faults EXCEPT ![p] =
                      IF oldList.err = "IOError" THEN {"crlHolder.Get"} ELSE {}]
      /\ newCrl' = [newCrl EXCEPT ![p] = <<>>]
      /\ pc' = [pc EXCEPT ![p] = "RevokeOne.GetByCN"]
      /\ requested' = requested \cup {s}

RevokeOneGetCRL(p) ==
  /\ Call(p)
  /\ \E s \in Serials, fault \in BOOLEAN : RevokeOneRead(p, s, fault)
  /\ outer' = [outer EXCEPT ![p] = "RevokeOne"]
  /\ UNCHANGED <<storage, lastSerial, crlStore, clock, batch, caPair, req, op, arg, ret>>

\* BuildCRL with the wrong serial in the new entry: the signer's, not the one asked for.
BuildCRLOfSigner(oldList, s, signer, now) ==
  [ RevokedCertificates |->
      removeDups(Append(oldList, [SerialNumber |-> signer.Serial, RevocationTime |-> now])),
    Signer |-> signer.Serial ]

\* Lines 228-233: the CRL RevokeOne builds from its list, signed by caPairs[0].
BuildCRL(oldList, s, signer, now) ==
  [ RevokedCertificates |->
      removeDups(Append(oldList, [SerialNumber |-> s, RevocationTime |-> now])),
    Signer |-> signer.Serial ]

\* Lines 217-236: pick the signing CA, append, deduplicate, sign.
RevokeOneSign(p) ==
  /\ pc[p] = "RevokeOne.GetByCN"
  /\ \E fault \in BOOLEAN :
       LET caPairs == SortBySerialDesc(StorageGetByCN(storage, "ca"))
       IN  IF fault
           THEN ReturnRevokeOne(p, "can't get ca certs for signing crl")
           ELSE IF caPairs = <<>>
           THEN ReturnRevokeOne(p, Panic)
           ELSE /\ newCrl' = [newCrl EXCEPT ![p] =
                                <<BuildCRL(list[p], serial[p], caPairs[1], clock)>>]
                /\ pc' = [pc EXCEPT ![p] = "RevokeOne.Put"]
                /\ UNCHANGED <<serial, list, batch, caPair, req, outer, op, arg, ret>>
  /\ UNCHANGED <<storage, lastSerial, crlStore, clock, faults, requested, budget>>

\* RevokeOnePut that also deletes the revoked pair from storage.
RevokeOnePutDeletingPair(p) ==
  /\ pc[p] = "RevokeOne.Put"
  /\ \E fault \in BOOLEAN :
       /\ crlStore' = CRLPut(crlStore, newCrl[p][1], fault)
       /\ storage' = IF fault THEN storage
                     ELSE SelectSeq(storage, LAMBDA x : Cmp(x.Serial, serial[p]) # 0)
       /\ faults' = [faults EXCEPT ![p] = IF fault THEN @ \cup {"crlHolder.Put"} ELSE @]
       /\ ReturnRevokeOne(p, IF fault THEN "can't put new crl" ELSE "nil")
  /\ UNCHANGED <<lastSerial, clock, requested, budget>>

\* RevokeOnePut without the check of Put's error.
RevokeOnePutUnchecked(p) ==
  /\ pc[p] = "RevokeOne.Put"
  /\ \E fault \in BOOLEAN :
       /\ crlStore' = CRLPut(crlStore, newCrl[p][1], fault)
       /\ faults' = [faults EXCEPT ![p] = IF fault THEN @ \cup {"crlHolder.Put"} ELSE @]
       /\ ReturnRevokeOne(p, "nil")
  /\ UNCHANGED <<storage, lastSerial, clock, requested, budget>>

\* Lines 237-245: store the new CRL.
RevokeOnePut(p) ==
  /\ pc[p] = "RevokeOne.Put"
  /\ \E fault \in BOOLEAN :
       /\ crlStore' = CRLPut(crlStore, newCrl[p][1], fault)
       /\ faults' = [faults EXCEPT ![p] = IF fault THEN @ \cup {"crlHolder.Put"} ELSE @]
       /\ ReturnRevokeOne(p, IF fault THEN "can't put new crl" ELSE "nil")
  /\ UNCHANGED <<storage, lastSerial, clock, requested, budget>>

\* --------------------------------------------------------- RevokeAllByCN
\* Lines 249-253: read the pairs of the common name.
RevokeAllGetByCN(p) ==
  /\ Call(p)
  /\ \E cn \in CNs, fault \in BOOLEAN :
       LET pairs == StorageGetByCN(storage, cn)
       IN  IF fault
           THEN Return(p, "RevokeAllByCN", SerialFloor, "can't get pairs for revoke")
           ELSE IF pairs = <<>>
           THEN Return(p, "RevokeAllByCN", SerialFloor, "nil")
           ELSE /\ batch' = [batch EXCEPT ![p] = [i \in 1..Len(pairs) |-> pairs[i].Serial]]
                /\ req' = [req EXCEPT ![p] = [cn |-> cn, server |-> FALSE, groups |-> <<>>]]
                /\ outer' = [outer EXCEPT ![p] = "RevokeAllByCN"]
                /\ pc' = [pc EXCEPT ![p] = "RevokeAllByCN.RevokeOne"]
                /\ UNCHANGED <<serial, list, newCrl, caPair, op, arg, ret>>
  /\ faults' = [faults EXCEPT ![p] = {}]
  /\ UNCHANGED <<storage, lastSerial, crlStore, clock, requested>>

\* Lines 254-255: the loop calls RevokeOne for the next pair.
RevokeAllNext(p) ==
  /\ pc[p] = "RevokeAllByCN.RevokeOne"
  /\ \E fault \in BOOLEAN : RevokeOneRead(p, Head(batch[p]), fault)
  /\ batch' = [batch EXCEPT ![p] = Tail(@)]
  /\ UNCHANGED <<storage, lastSerial, crlStore, clock, caPair, req, outer, op, arg, ret,
                 budget>>

\* ------------------------------------------------------ GetCRL, IsRevoked
\* GetCRL that answers an absent CRL with an empty list and no error.
GetCRLOrEmpty(p) ==
  /\ Call(p)
  /\ \E fault \in BOOLEAN :
       LET got == CRLGet(crlStore, fault)
       IN  /\ faults' = [faults EXCEPT ![p] =
                           IF got.err = "IOError" THEN {"crlHolder.Get"} ELSE {}]
           /\ Return(p, "GetCRL", SerialFloor,
                     IF got.err = "NotFound" THEN "nil" ELSE got.err)
  /\ UNCHANGED <<storage, lastSerial, crlStore, clock, requested>>

\* Lines 202-204.
GetCRL(p) ==
  /\ Call(p)
  /\ \E fault \in BOOLEAN :
       LET got == CRLGet(crlStore, fault)
       IN  /\ faults' = [faults EXCEPT ![p] =
                           IF got.err = "IOError" THEN {"crlHolder.Get"} ELSE {}]
           /\ Return(p, "GetCRL", SerialFloor, got.err)
  /\ UNCHANGED <<storage, lastSerial, crlStore, clock, requested>>

\* Lines 264-275.
IsRevoked(p) ==
  /\ Call(p)
  /\ \E s \in Serials, fault \in BOOLEAN :
       LET revokedCerts == CRLGet(crlStore, fault)
       IN  /\ faults' = [faults EXCEPT ![p] =
                           IF revokedCerts.err = "IOError" THEN {"crlHolder.Get"} ELSE {}]
           /\ Return(p, "IsRevoked", s,
                     IF IsRevokedIn(revokedCerts, s) THEN "true" ELSE "false")
  /\ UNCHANGED <<storage, lastSerial, crlStore, clock, requested>>

\* ---------------------------------------------------------------- NewCa
\* NewCaNext with the serial of every authority fixed, none taken from the provider.
NewCaFixedSerial(p) ==
  /\ Call(p)
  /\ serial' = [serial EXCEPT ![p] = [hi |-> 0, lo |-> 1]]
  /\ outer' = [outer EXCEPT ![p] = "NewCa"]
  /\ pc' = [pc EXCEPT ![p] = "NewCa.Put"]
  /\ faults' = [faults EXCEPT ![p] = {}]
  /\ UNCHANGED <<list, newCrl, batch, caPair, req, op, arg, ret>>
  /\ UNCHANGED <<storage, lastSerial, crlStore, clock, requested>>

\* Lines 68-80: generate the key, take a serial.
NewCaNext(p) ==
  /\ Call(p)
  /\ \/ \E s \in SerialNext(lastSerial) :
          /\ lastSerial' = s
          /\ serial' = [serial EXCEPT ![p] = s]
          /\ outer' = [outer EXCEPT ![p] = "NewCa"]
          /\ pc' = [pc EXCEPT ![p] = "NewCa.Put"]
          /\ UNCHANGED <<list, newCrl, batch, caPair, req, op, arg, ret>>
     \/ /\ Return(p, "NewCa", SerialFloor, "serialProvider.Next failed")
        /\ UNCHANGED lastSerial
  /\ faults' = [faults EXCEPT ![p] = {}]
  /\ UNCHANGED <<storage, crlStore, clock, requested>>

\* NewCaPut without the check of Put's error: the pair is returned, stored or not.
NewCaPutUnchecked(p) ==
  /\ pc[p] = "NewCa.Put"
  /\ \E fault \in BOOLEAN :
       /\ storage' = IF fault THEN storage
                     ELSE StoragePut(storage,
                            NewX509Pair(CaTemplate(serial[p]), "ca", serial[p]))
       /\ Return(p, "NewCa", serial[p], "nil")
  /\ UNCHANGED <<lastSerial, crlStore, clock, faults, requested, budget>>

\* Lines 82-114: self-sign and store the pair.
NewCaPut(p) ==
  /\ pc[p] = "NewCa.Put"
  /\ \E fault \in BOOLEAN :
       /\ storage' = IF fault THEN storage
                     ELSE StoragePut(storage,
                            NewX509Pair(CaTemplate(serial[p]), "ca", serial[p]))
       /\ Return(p, "NewCa", serial[p], IF fault THEN "Storage.Put failed" ELSE "nil")
  /\ UNCHANGED <<lastSerial, crlStore, clock, faults, requested, budget>>

\* GetLastCA that answers with the oldest authority pair, not the last one stored.
GetFirstCA(st) ==
  LET found == StorageGetByCN(st, "ca")
  IN  IF found = <<>> THEN <<>> ELSE <<found[1]>>

\* -------------------------------------------------------------- NewCert
\* Lines 207-209.
GetLastCA(st) == StorageGetLastByCn(st, "ca")

\* Lines 118-126: read and decode the last CA pair.
NewCertGetLastCA(p) ==
  /\ Call(p)
  /\ \E r \in Requests, fault \in BOOLEAN :
       LET found == GetLastCA(storage)
       IN  IF fault \/ found = <<>>
           THEN Return(p, "NewCert", SerialFloor, "can't get ca pair")
           ELSE /\ caPair' = [caPair EXCEPT ![p] = found]
                /\ req' = [req EXCEPT ![p] = r]
                /\ outer' = [outer EXCEPT ![p] = "NewCert"]
                /\ pc' = [pc EXCEPT ![p] = "NewCert.Next"]
                /\ UNCHANGED <<serial, list, newCrl, batch, op, arg, ret>>
  /\ faults' = [faults EXCEPT ![p] = {}]
  /\ UNCHANGED <<storage, lastSerial, crlStore, clock, requested>>

\* Lines 128-136: generate the key, take a serial.
NewCertNext(p) ==
  /\ pc[p] = "NewCert.Next"
  /\ \/ \E s \in SerialNext(lastSerial) :
          /\ lastSerial' = s
          /\ serial' = [serial EXCEPT ![p] = s]
          /\ pc' = [pc EXCEPT ![p] = "NewCert.Put"]
          /\ UNCHANGED <<list, newCrl, batch, caPair, req, outer, op, arg, ret>>
     \/ /\ Return(p, "NewCert", SerialFloor, "serialProvider.Next failed")
        /\ UNCHANGED lastSerial
  /\ UNCHANGED <<storage, crlStore, clock, faults, requested, budget>>

\* Lines 138-198: build the template, sign it with the CA read, store the pair.
NewCertPut(p) ==
  /\ pc[p] = "NewCert.Put"
  /\ \E fault \in BOOLEAN :
       /\ storage' =
            IF fault THEN storage
            ELSE StoragePut(storage,
                   NewX509Pair(CertTemplate(req[p].cn, req[p].server, req[p].groups,
                                            serial[p], caPair[p][1].Serial),
                               req[p].cn, serial[p]))
       /\ Return(p, "NewCert", serial[p], IF fault THEN "Storage.Put failed" ELSE "nil")
  /\ UNCHANGED <<lastSerial, crlStore, clock, faults, requested, budget>>

\* ----------------------------------------------------------------- time
\* time.Now() moves on.
Tick ==
  /\ clock < MaxTime
  /\ clock' = clock + 1
  /\ UNCHANGED <<storage, lastSerial, crlStore, pc, serial, list, newCrl, batch, caPair,
                 req, outer, faults, op, arg, ret, requested, budget>>

\* ------------------------------------------------------- specifications
Step(p) ==
  \/ NewCaNext(p)
  \/ NewCaPut(p)
  \/ NewCertGetLastCA(p)
  \/ NewCertNext(p)
  \/ NewCertPut(p)
  \/ GetCRL(p)
  \/ RevokeOneGetCRL(p)
  \/ RevokeOneSign(p)
  \/ RevokeOnePut(p)
  \/ RevokeAllGetByCN(p)
  \/ RevokeAllNext(p)
  \/ IsRevoked(p)

\* Callers run concurrently: their steps interleave.  The calls fall within
\* one reading of the clock.
Next == \E p \in Procs : Step(p)

Spec == Init /\ [][Next]_vars

\* One caller: every call returns before the next one starts.  Time passes
\* between its steps.
SeqNext == Tick \/ Step("p1")

SpecSeq == InitSeq /\ [][SeqNext]_vars

\* ---------------------------------------------------------- properties
\* What GetCRL and IsRevoked observe when the store answers.
Current == CRLGet(crlStore, FALSE)

Revoked(store) ==
  IF store = <<>> THEN <<>> ELSE store[1].RevokedCertificates

RevokedSerials(store) ==
  {Revoked(store)[i].SerialNumber : i \in 1..Len(Revoked(store))}

EntriesFor(store, s) ==
  {i \in 1..Len(Revoked(store)) : Cmp(Revoked(store)[i].SerialNumber, s) = 0}

Returned(p, name) == pc[p] = "idle" /\ op[p] = name

\* C1: two callers revoke serials that differ in their low word, no CRLHolder
\* call fails and both RevokeOne calls have returned nil: then both serials are
\* in the stored CRL.
C1_NoLostRevocation ==
  \A p, q \in Procs :
    ( /\ p # q
      /\ Returned(p, "RevokeOne") /\ ret[p] = "nil" /\ faults[p] = {}
      /\ Returned(q, "RevokeOne") /\ ret[q] = "nil" /\ faults[q] = {}
      /\ Int64(arg[p]) # Int64(arg[q]) )
    => /\ IsRevokedIn(Current, arg[p])
       /\ IsRevokedIn(Current, arg[q])

\* C2: before any revocation IsRevoked is false for every serial, and right
\* after RevokeOne(s) returned nil IsRevoked(s) is true.
C2_IsRevokedGroundTruth ==
  /\ requested = {} => \A s \in Serials : ~IsRevokedIn(Current, s)
  /\ \A p \in Procs :
       (Returned(p, "RevokeOne") /\ ret[p] = "nil") => IsRevokedIn(Current, arg[p])

\* C3: no step removes a serial from the stored CRL.
C3_RevokedIsTerminal ==
  [][RevokedSerials(crlStore) \subseteq RevokedSerials(crlStore')]_vars

\* C4: when RevokeOne(s) returned nil and the same caller's next call is
\* RevokeOne(s) again, reads the CRL without a failure and returns nil, the stored
\* CRL has exactly one entry for s and the same other serials as before that call.
C4_RevokeTwice ==
  [][\A p \in Procs :
       ( /\ op[p] = "RevokeOne" /\ ret[p] = "nil"
         /\ pc[p] = "RevokeOne.Put" /\ outer[p] = "RevokeOne"
         /\ Cmp(arg[p], serial[p]) = 0 /\ faults[p] = {}
         /\ pc'[p] = "idle" /\ ret'[p] = "nil" )
       => /\ Cardinality(EntriesFor(crlStore', serial[p])) = 1
          /\ RevokedSerials(crlStore') \ {serial[p]}
               = RevokedSerials(crlStore) \ {serial[p]}]_vars

\* C5: no two stored pairs have the same serial number.
C5_UniqueSerials ==
  \A i, j \in 1..Len(storage) :
    i # j => Cmp(storage[i].Serial, storage[j].Serial) # 0

\* C5 witness: two leaf pairs issued by concurrent NewCert calls, stored in the
\* opposite order of their serials.
C5_Witness ==
  /\ Len(storage) = 3
  /\ storage[2].CN # "ca" /\ storage[3].CN # "ca"
  /\ Cmp(storage[2].Serial, storage[3].Serial) = 1

\* C6: the stored CRL holds only serials given to some RevokeOne call; when only
\* the serial of one stored pair a was given and a CRL is stored, a is revoked,
\* every other stored pair b is not, and the CRL has exactly one entry.
C6_NoSpuriousRevocation ==
  /\ RevokedSerials(crlStore) \subseteq requested
  /\ \A i \in 1..Len(storage) :
       (requested = {storage[i].Serial} /\ crlStore # <<>>)
       => /\ IsRevokedIn(Current, storage[i].Serial)
          /\ Len(Current.list) = 1
          /\ \A j \in 1..Len(storage) :
               j # i => ~IsRevokedIn(Current, storage[j].Serial)

\* C6 witness: an authority, leaves svc-a and svc-b, and only svc-a's serial revoked.
C6_Witness ==
  /\ Len(storage) = 3
  /\ storage[1].CN = "ca" /\ storage[2].CN = "svc-a" /\ storage[3].CN = "svc-b"
  /\ requested = {storage[2].Serial}
  /\ crlStore # <<>>
  /\ \A p \in Procs : pc[p] = "idle"

\* C7: while no CRL was ever written GetCRL returns NotFound and IsRevoked
\* returns false, and the RevokeOne(s) that writes the first CRL writes one with
\* the single entry s.
C7_NoCRLYet ==
  [][\A p \in Procs :
       /\ (crlStore' = <<>> /\ pc'[p] = "idle" /\ op'[p] = "GetCRL")
            => ret'[p] = "NotFound"
       /\ (crlStore' = <<>> /\ pc'[p] = "idle" /\ op'[p] = "IsRevoked")
            => ret'[p] = "false"
       /\ (pc[p] = "RevokeOne.Put" /\ pc'[p] # pc[p] /\ crlStore = <<>> /\ crlStore' # <<>>)
            => /\ Len(Revoked(crlStore')) = 1
               /\ Cmp(Revoked(crlStore')[1].SerialNumber, serial[p]) = 0]_vars

\* C7 witness: one caller got NotFound from GetCRL and the CRL another caller's
\* RevokeOne wrote is the first one.
C7_Witness ==
  \E p, q \in Procs :
    /\ Returned(p, "GetCRL") /\ ret[p] = "NotFound"
    /\ Returned(q, "RevokeOne") /\ ret[q] = "nil"
    /\ Len(Revoked(crlStore)) = 1
    /\ requested = {arg[q]}

\* C8: a RevokeOne whose read of an existing CRL failed returns an error and
\* leaves the stored CRL as it was.
C8_ReadFailurePropagates ==
  [][\A p \in Procs :
       ( /\ pc[p] = "RevokeOne.Put" /\ outer[p] = "RevokeOne"
         /\ "crlHolder.Get" \in faults[p]
         /\ pc'[p] = "idle" )
       => /\ ret'[p] # "nil"
          /\ crlStore' = crlStore]_vars

\* C9: RevokeOne called while storage holds no authority pair returns an error
\* value and the CRL store stays empty.
C9_NoAuthority ==
  \A p \in Procs :
    (Returned(p, "RevokeOne") /\ StorageGetByCN(storage, "ca") = <<>>)
    => /\ ret[p] \notin {"nil", Panic}
       /\ crlStore = <<>>

\* C10: when the Put of a RevokeOne fails, the call returns an error and the
\* CRL store holds what it held before: GetCRL and IsRevoked see no change.
C10_PutFailure ==
  [][\A p \in Procs :
       (pc[p] = "RevokeOne.Put" /\ "crlHolder.Put" \in faults'[p])
       => /\ pc'[p] = "idle"
          /\ ret'[p] \notin {"nil", Panic}
          /\ crlStore' = crlStore
          /\ CRLGet(crlStore', FALSE) = CRLGet(crlStore, FALSE)]_vars

\* C10 witness: a RevokeOne returned the error of Put while a CRL was stored.
C10_Witness ==
  \E p \in Procs :
    /\ Returned(p, "RevokeOne")
    /\ ret[p] = "can't put new crl"
    /\ "crlHolder.Put" \in faults[p]
    /\ crlStore # <<>>

\* C11: a RevokeAllByCN(cn) that returns nil leaves the serial of every pair
\* stored under cn in the CRL; one that returns an error stops at the RevokeOne
\* that failed and leaves the CRL as the revocations before it made it.
C11_RevokeAll ==
  [][\A p \in Procs :
       (outer[p] = "RevokeAllByCN" /\ pc[p] # "idle" /\ pc'[p] = "idle")
       => IF ret'[p] = "nil"
          THEN \A i \in 1..Len(storage) :
                 storage[i].CN = req[p].cn
                 => storage[i].Serial \in RevokedSerials(crlStore')
          ELSE crlStore' = crlStore]_vars

\* Every leaf pair of st was signed by the authority pair that was the last one
\* stored when the leaf was put.
SignedByLastCA(st) ==
  \A i \in 1..Len(st) :
    ~st[i].Cert.IsCA
    => \E j \in 1..(i - 1) :
         /\ st[j].Cert.IsCA
         /\ \A k \in (j + 1)..(i - 1) : ~st[k].Cert.IsCA
         /\ st[i].Cert.Issuer = st[j].Serial

\* C12: a NewCert called while storage holds no authority pair returns the
\* error of the lookup, takes no serial, puts no pair and leaves the CRL alone;
\* every leaf NewCert stores is signed by the authority pair stored last.
C12_NewCertAuthority ==
  [][/\ \A p \in Procs :
          (NewCertGetLastCA(p) /\ \A i \in 1..Len(storage) : ~storage[i].Cert.IsCA)
          => /\ pc'[p] = "idle"
             /\ ret'[p] = "can't get ca pair"
             /\ lastSerial' = lastSerial
             /\ storage' = storage
             /\ crlStore' = crlStore
     /\ SignedByLastCA(storage')]_vars

\* C12 witness: a NewCert returned a leaf signed by the second of two
\* authorities.
C12_Witness ==
  \E p \in Procs, i \in 1..Len(storage) :
    /\ Returned(p, "NewCert") /\ ret[p] = "nil"
    /\ storage[i].Serial = arg[p]
    /\ Len(StorageGetByCN(SubSeq(storage, 1, i - 1), "ca")) = 2
    /\ storage[i].Cert.Issuer = StorageGetByCN(storage, "ca")[2].Serial
    /\ storage[i].Cert.Issuer # StorageGetByCN(storage, "ca")[1].Serial

\* C13: the leaf NewCert stores for server = FALSE has the key usages digital
\* signature and key agreement, the extended key usage client authentication
\* and the client discriminator byte 0x80; for server = TRUE it has key
\* encipherment as well, the extended key usage server authentication and the
\* server discriminator byte 0x40.  No stored leaf carries both roles.
C13_RoleEncoding ==
  [][/\ \A p \in Procs :
          (pc[p] = "NewCert.Put" /\ pc'[p] = "idle" /\ ret'[p] = "nil")
          => LET c == storage'[Len(storage')].Cert
             IN  IF req[p].server
                 THEN /\ c.KeyUsage = {"DigitalSignature", "KeyAgreement", "KeyEncipherment"}
                      /\ c.ExtKeyUsage = {"ServerAuth"}
                      /\ c.NsCertType = 64
                 ELSE /\ c.KeyUsage = {"DigitalSignature", "KeyAgreement"}
                      /\ c.ExtKeyUsage = {"ClientAuth"}
                      /\ c.NsCertType = 128
     /\ \A i \in 1..Len(storage') :
          ~storage'[i].Cert.IsCA
          => LET c == storage'[i].Cert
             IN  \/ c.ExtKeyUsage = {"ServerAuth"} /\ c.NsCertType = 64
                 \/ c.ExtKeyUsage = {"ClientAuth"} /\ c.NsCertType = 128]_vars

\* C13 witness: NewCert has stored a server leaf and a client leaf.
C13_Witness ==
  \E i, j \in 1..Len(storage) :
    /\ storage[i].Cert.ExtKeyUsage = {"ServerAuth"}
    /\ "KeyEncipherment" \in storage[i].Cert.KeyUsage
    /\ storage[j].Cert.ExtKeyUsage = {"ClientAuth"}
    /\ "KeyEncipherment" \notin storage[j].Cert.KeyUsage
    /\ storage[i].Cert.NsCertType # storage[j].Cert.NsCertType

\* C14: ExtractGroups on the leaf NewCert stores for the groups g returns g,
\* in order, when g is not empty, and the error "No groups in certificate"
\* when g is empty.
C14_GroupRoundTrip ==
  [][\A p \in Procs :
       (pc[p] = "NewCert.Put" /\ pc'[p] = "idle" /\ ret'[p] = "nil")
       => LET got == ExtractGroups(storage'[Len(storage')].Cert)
          IN  IF req[p].groups # <<>>
              THEN got.err = "nil" /\ got.groups = req[p].groups
              ELSE got.err = "No groups in certificate"]_vars

\* C14 witness: storage holds a leaf issued with two groups, which
\* ExtractGroups returns in order, and a leaf issued with none.
C14_Witness ==
  \E i, j \in 1..Len(storage) :
    /\ ~storage[i].Cert.IsCA
    /\ ExtractGroups(storage[i].Cert) = [err |-> "nil", groups |-> <<"ops", "db">>]
    /\ ~storage[j].Cert.IsCA
    /\ ExtractGroups(storage[j].Cert).err = "No groups in certificate"

\* C15: serials are compared at full precision when the list is deduplicated:
\* when a RevokeOne(t) whose CRLHolder calls all succeeded returns nil, t is in
\* the stored CRL, and so is every serial that was in it, also one that differs
\* from t only above its low 64 bits.
C15_FullPrecisionDedup ==
  [][\A p \in Procs :
       ( /\ pc[p] = "RevokeOne.Put" /\ outer[p] = "RevokeOne"
         /\ pc'[p] = "idle" /\ ret'[p] = "nil"
         /\ faults'[p] = {} )
       => /\ serial[p] \in RevokedSerials(crlStore')
          /\ RevokedSerials(crlStore) \subseteq RevokedSerials(crlStore')]_vars

\* The serial of the authority pair of st with the highest serial.
HighestCA(st) ==
  CHOOSE s \in {st[i].Serial : i \in {j \in 1..Len(st) : st[j].Cert.IsCA}} :
    \A i \in 1..Len(st) : st[i].Cert.IsCA => Cmp(st[i].Serial, s) # 1

\* C16: every CRL RevokeOne writes is signed by the authority pair with the
\* highest serial in storage, and it holds the whole set revoked so far: the
\* first RevokeOne after a new authority was created signs every serial of the
\* CRL before it, and the one it was given, with the new authority.
C16_SignedByHighest ==
  [][\A p \in Procs :
       (pc[p] = "RevokeOne.Put" /\ crlStore' # crlStore)
       => /\ crlStore'[1].Signer = HighestCA(storage)
          /\ (crlStore # <<>> /\ crlStore[1].Signer # HighestCA(storage))
             => RevokedSerials(crlStore) \subseteq RevokedSerials(crlStore')]_vars

\* Every CRL RevokeOne builds is signed by the authority pair with the highest
\* serial, in whatever order the pairs were stored.
SignerIsHighest ==
  [][\A p \in Procs :
       (pc[p] = "RevokeOne.GetByCN" /\ pc'[p] = "RevokeOne.Put")
       => newCrl'[p][1].Signer = HighestCA(storage)]_vars

\* C17: all serials come from the one strictly increasing allocator; then in
\* every state, also after NewCa calls of concurrent callers, the authority
\* NewCert signs leaves with (the one stored last) is the authority RevokeOne
\* signs the CRL with (the one with the highest serial).
C17_OneAuthority ==
  GetLastCA(storage) # <<>>
  => GetLastCA(storage)[1].Serial = HighestCA(storage)

\* C18: no step of RevokeOne, RevokeAllByCN or IsRevoked changes key and
\* certificate storage, the answer of GetLastByCn("ca") or the serial allocator.
C18_RevocationFrame ==
  [][(\E p \in Procs :
        \/ RevokeOneGetCRL(p) \/ RevokeOneSign(p) \/ RevokeOnePut(p)
        \/ RevokeAllGetByCN(p) \/ RevokeAllNext(p)
        \/ IsRevoked(p))
     => /\ storage' = storage
        /\ StorageGetLastByCn(storage', "ca") = StorageGetLastByCn(storage, "ca")
        /\ lastSerial' = lastSerial]_vars

\* C18 witness: RevokeAllByCN has revoked a leaf; the pair is still stored and
\* no serial was taken after the leaf's.
C18_Witness ==
  \E p \in Procs, i \in 1..Len(storage) :
    /\ Returned(p, "RevokeAllByCN") /\ ret[p] = "nil"
    /\ ~storage[i].Cert.IsCA
    /\ storage[i].Serial \in RevokedSerials(crlStore)
    /\ lastSerial = storage[i].Serial
    /\ StorageGetLastByCn(storage, "ca") # <<>>

\* C19: no step of NewCa or NewCert changes the CRL store; no stored pair is
\* ever lost or overwritten; and whenever a NewCa or NewCert of any caller has
\* returned a pair, the pair with the serial it returned is in storage.
C19_IssuanceFrame ==
  [][/\ (\E p \in Procs :
           \/ NewCaNext(p) \/ NewCaPut(p)
           \/ NewCertGetLastCA(p) \/ NewCertNext(p) \/ NewCertPut(p))
        => crlStore' = crlStore
     /\ Len(storage') >= Len(storage)
     /\ \A i \in 1..Len(storage) : storage'[i] = storage[i]
     /\ \A p \in Procs :
          (pc'[p] = "idle" /\ op'[p] \in {"NewCa", "NewCert"} /\ ret'[p] = "nil")
          => \E i \in 1..Len(storage') :
               /\ storage'[i].Serial = arg'[p]
               /\ storage'[i].Cert.SerialNumber = arg'[p]
               /\ storage'[i].Cert.IsCA <=> (op'[p] = "NewCa")]_vars

\* C19 witness: a NewCa and a NewCert of two callers ran interleaved, the
\* pair with the higher serial was stored first, and both pairs are stored.
C19_Witness ==
  \E p, q \in Procs, i, j \in 1..Len(storage) :
    /\ Returned(p, "NewCa") /\ ret[p] = "nil"
    /\ Returned(q, "NewCert") /\ ret[q] = "nil"
    /\ storage[i].Serial = arg[p] /\ storage[i].Cert.IsCA
    /\ storage[j].Serial = arg[q] /\ ~storage[j].Cert.IsCA
    /\ i < j
    /\ Cmp(arg[p], arg[q]) = 1

\* C20: when RevokeOne(s) is called for a serial s that is in the stored CRL and
\* returns nil, the revoked list is what it was: the entry of s keeps its
\* timestamp and its position, and the new entry (s, now) is discarded.
C20_KeepFirst ==
  [][\A p \in Procs :
       ( /\ pc[p] = "RevokeOne.Put" /\ outer[p] = "RevokeOne"
         /\ serial[p] \in RevokedSerials(crlStore)
         /\ pc'[p] = "idle" /\ ret'[p] = "nil" )
       => Revoked(crlStore') = Revoked(crlStore)]_vars

\* The same for the calls whose read of the CRL succeeded.
KeepFirstAfterRead ==
  [][\A p \in Procs :
       ( /\ pc[p] = "RevokeOne.Put" /\ outer[p] = "RevokeOne"
         /\ serial[p] \in RevokedSerials(crlStore)
         /\ "crlHolder.Get" \notin faults[p]
         /\ pc'[p] = "idle" /\ ret'[p] = "nil" )
       => Revoked(crlStore') = Revoked(crlStore)]_vars

====
